---- MODULE Spec2Model ----
(***************************************************************************)
(* State-machine model of the service layer of the agentic RAG backend:    *)
(*   services/bedrock_service.py       BedrockService                      *)
(*   services/conversation_service.py  ConversationService                 *)
(* One client process calls the service operations one at a time.  Every   *)
(* remote call (Bedrock, DynamoDB) is answered by the environment with a   *)
(* success, a ClientError carrying a fault code, or a non-ClientError      *)
(* exception.  The tenacity decorator re-invokes the decorated function,   *)
(* so one step of a retried operation is one execution of its body.        *)
(* The DynamoDB table, the wall clock and the table's background TTL       *)
(* deletion are part of the state.                                         *)
(***************************************************************************)
EXTENDS Integers, Sequences, FiniteSets, TLC

VARIABLES
    pc,        \* "idle" | "retrying" (tenacity sleeps before the next attempt) |
               \* "resolved" (get_or_create_history has its conv_id) | "done"
    op,        \* name of the operation in progress or last finished
    args,      \* its arguments
    attempt,   \* tenacity attempt_number of the last executed attempt
    calls,     \* remote calls made by the operation so far
    last,      \* what the environment answered to the last remote call
    onlyTransient, \* every remote call of the operation so far failed with a transient fault
    sent,      \* the last outbound request
    waits,     \* tenacity sleeps of the operation so far
    result,    \* what the caller observes: nothing yet, a return value, or an exception
    store,     \* items of the conversations table
    now,       \* wall clock, [s |-> epoch seconds, us |-> microseconds]
    ticks,     \* clock advances so far
    issued     \* the conversation ids generated so far, in order

vars == <<pc, op, args, attempt, calls, last, onlyTransient, sent, waits, result,
          store, now, ticks, issued>>

(***************************************************************************)
(* Bounds of the model                                                     *)
(***************************************************************************)
MaxResultsHi == 12     \* retrieve is called with max_results in -1..MaxResultsHi
MaxTicks == 2          \* clock advances
MaxStore == 2          \* items in the table
MaxIssued == 2         \* conversation ids generated
MaxRecords == 2        \* records in an upload notification

(***************************************************************************)
(* Program constants                                                       *)
(***************************************************************************)
MaxAttempts == 3           \* stop_after_attempt(3)
MaxNumberOfResults == 10   \* min(max_results, 10)
WaitMultiplier == 1        \* wait_exponential(multiplier=1, ...)
WaitMin == 2               \* wait_exponential(min=2)
WaitMax == 10              \* wait_exponential(max=10)
MicrosPerSecond == 1000000 \* int(now.timestamp() * 1000000)
SecondsPerDay == 86400     \* timedelta(days=1)

KNOWLEDGE_BASE_ID == "kb-1"

(***************************************************************************)
(* Python values                                                           *)
(***************************************************************************)
None == "<None>"
Truthy(x) == x \notin {None, ""}

\* A conversation id is the sequence of its characters; NoId is None, <<>> is "".
NoId == <<"<None>">>
\* if conversation_id:
HasId(x) == x \notin {NoId, <<>>}

\* the process is not inside an operation
Ready == pc \in {"idle", "done"}

Min(a, b) == IF a <= b THEN a ELSE b
Max(a, b) == IF a >= b THEN a ELSE b

(***************************************************************************)
(* Answers of a remote service                                             *)
(***************************************************************************)
FaultCodes == {"ThrottlingException", "InternalServerException",
               "ServiceUnavailableException", "LimitExceededException",
               "ProvisionedThroughputExceededException",
               "AccessDeniedException", "ValidationException", ""}
NonFaults == {"EndpointConnectionError"}
Ok == "ok"
Answers == {Ok} \cup FaultCodes \cup NonFaults

\* botocore ClientError with e.response['Error']['Code'] = code
ClientError(code) == [type |-> "ClientError", msg |-> <<code>>, details |-> [error_code |-> code]]
\* any other exception raised by the transport
OtherError(name) == [type |-> "Exception", msg |-> <<name>>, details |-> [name |-> name]]

(***************************************************************************)
(* utils/exceptions.py                                                     *)
(***************************************************************************)
RAGError(type, message, details) == [type |-> type, msg |-> message, details |-> details]
KnowledgeBaseError(message, details) == RAGError("KnowledgeBaseError", message, details)
BedrockServiceError(message, details) == RAGError("BedrockServiceError", message, details)
ConversationServiceError(message, details) == RAGError("ConversationServiceError", message, details)

\* f"<prefix>{str(e)}"
Fmt(prefix, e) == <<prefix>> \o e.msg

(***************************************************************************)
(* Outcome of one execution of a function body                             *)
(***************************************************************************)
Returns(v) == [kind |-> "ok", value |-> v]
Raises(e) == [kind |-> "error", err |-> e]
NoResult == [kind |-> "none"]

(***************************************************************************)
(* tenacity: @retry(stop=stop_after_attempt(3),                            *)
(*                  wait=wait_exponential(multiplier=1, min=2, max=10),    *)
(*                  retry=retry_if_exception_type(ClientError))            *)
(***************************************************************************)
ShouldRetry_AnyException(outcome) == outcome.kind = "error"

\* retry_if_exception_type(ClientError)
ShouldRetry(outcome) == outcome.kind = "error" /\ outcome.err.type = "ClientError"

ShouldStop_After4(attempt_number) == attempt_number >= 4

\* stop_after_attempt(3)
ShouldStop(attempt_number) == attempt_number >= MaxAttempts

RECURSIVE Pow2(_)
Pow2(n) == IF n <= 0 THEN 1 ELSE 2 * Pow2(n - 1)

\* the wait with the exponent attempt_number instead of attempt_number - 1
WaitExponential_FromTwo(attempt_number) ==
    Max(Max(0, WaitMin), Min(WaitMultiplier * Pow2(attempt_number), WaitMax))

\* wait_exponential.__call__: multiplier * 2 ** (attempt_number - 1), kept in [min, max]
WaitExponential(attempt_number) ==
    Max(Max(0, WaitMin), Min(WaitMultiplier * Pow2(attempt_number - 1), WaitMax))

\* reraise is not set: when the stop condition holds tenacity raises RetryError
RetryError(lastOutcome) ==
    [type |-> "RetryError", msg |-> <<"RetryError">>, details |-> [last_attempt |-> lastOutcome.err]]

Tenacity_NoRetry(n, outcome, slept) == [pc |-> "done", result |-> outcome, waits |-> slept]

\* One iteration of the tenacity loop after the body produced `outcome` on
\* attempt `n`: the next control state, what the caller observes, the sleep.
Tenacity(n, outcome, slept) ==
    IF ~ShouldRetry(outcome)
    THEN [pc |-> "done", result |-> outcome, waits |-> slept]
    ELSE IF ShouldStop(n)
         THEN [pc |-> "done", result |-> Raises(RetryError(outcome)), waits |-> slept]
         ELSE [pc |-> "retrying", result |-> NoResult,
               waits |-> Append(slept, WaitExponential(n))]

(***************************************************************************)
(* BedrockService.retrieve                                                 *)
(***************************************************************************)
\* retrieve with the transient codes of the table
RetrieveTransient_Dynamo ==
    {"ThrottlingException", "InternalServerException",
     "ServiceUnavailableException", "ProvisionedThroughputExceededException"}

\* transient_errors of retrieve
RetrieveTransient == {"ThrottlingException", "InternalServerException",
                      "ServiceUnavailableException", "LimitExceededException"}

NumberOfResults_Unclamped(max_results) == max_results

\* "numberOfResults": min(max_results, 10)
NumberOfResults(max_results) == Min(max_results, MaxNumberOfResults)

RetrieveParams(a) ==
    [api |-> "retrieve",
     knowledgeBaseId |-> KNOWLEDGE_BASE_ID,
     text |-> a.query,
     numberOfResults |-> NumberOfResults(a.max_results),
     nextToken |-> IF Truthy(a.next_token) THEN a.next_token ELSE None]

\* body of retrieve for the remote answer `answer` (k results on success)
RetrieveBody(a, answer, k) ==
    IF answer = Ok
    THEN Returns([retrievalResults |-> k])
    ELSE IF answer \in FaultCodes
         THEN IF answer \in RetrieveTransient
              THEN Raises(ClientError(answer))
              ELSE Raises(KnowledgeBaseError(
                       Fmt("Bedrock API error: ", ClientError(answer)),
                       [error_code |-> answer, query |-> a.query,
                        knowledge_base_id |-> KNOWLEDGE_BASE_ID]))
         ELSE Raises(KnowledgeBaseError(
                  Fmt("Failed to retrieve from knowledge base: ", OtherError(answer)),
                  [query |-> a.query, knowledge_base_id |-> KNOWLEDGE_BASE_ID]))

Queries == {"What is X?"}
NextTokens == {None, "tok"}
ChunkCounts == {0, 2}

\* The bookkeeping common to every attempt of a decorated operation: attempt n
\* of `name` made one remote call with `request`, the service answered
\* `answer`, the body ended with `outcome`, and tenacity decides what follows.
Attempt(name, a, n, answer, request, outcome, transientSet) ==
    LET t == Tenacity(n, outcome, IF n = 1 THEN <<>> ELSE waits) IN
    /\ op' = name
    /\ args' = a
    /\ attempt' = n
    /\ calls' = (IF n = 1 THEN 0 ELSE calls) + 1
    /\ last' = answer
    /\ onlyTransient' = ((n = 1 \/ onlyTransient) /\ answer \in transientSet)
    /\ sent' = request
    /\ pc' = t.pc
    /\ result' = t.result
    /\ waits' = t.waits

\* first attempt of retrieve(query, max_results, next_token)
retrieve(query, max_results, next_token, answer, k) ==
    LET a == [query |-> query, max_results |-> max_results, next_token |-> next_token] IN
    /\ Ready
    /\ Attempt("retrieve", a, 1, answer, RetrieveParams(a), RetrieveBody(a, answer, k),
               RetrieveTransient)
    /\ UNCHANGED <<store, now, ticks, issued>>

\* tenacity calls retrieve again after the sleep
retrieve_retry(answer, k) ==
    /\ pc = "retrying"
    /\ op = "retrieve"
    /\ Attempt("retrieve", args, attempt + 1, answer, RetrieveParams(args),
               RetrieveBody(args, answer, k), RetrieveTransient)
    /\ UNCHANGED <<store, now, ticks, issued>>

(***************************************************************************)
(* Wall clock and the conversations table                                  *)
(***************************************************************************)
\* datetime.now(timezone.utc) + d
TimeAdd(t, d) ==
    LET u == t.us + d.us IN
    [s |-> t.s + d.s + (u \div MicrosPerSecond), us |-> u % MicrosPerSecond]

TimeLess(a, b) == a.s < b.s \/ (a.s = b.s /\ a.us < b.us)

\* int(now.timestamp() * 1000000): the integer s * 10^6 + us, written as its
\* two base-10^6 digits; IdLess is the order of those integers
MessageId(t) == <<t.s, t.us>>
IdLess(a, b) == a[1] < b[1] \/ (a[1] = b[1] /\ a[2] < b[2])

\* int((now + timedelta(days=1)).timestamp())
TtlTimestamp(t) == TimeAdd(t, [s |-> SecondsPerDay, us |-> 0]).s

\* table.put_item(Item=item): (conversation_id, message_id) is the primary key
PutItem(table, item) ==
    {r \in table : ~(r.conversation_id = item.conversation_id
                     /\ r.message_id = item.message_id)} \cup {item}

Partition(table, cid) == {r \in table : r.conversation_id = cid}

RECURSIVE Ascending(_)
Ascending(S) ==
    IF S = {} THEN <<>>
    ELSE LET first == CHOOSE r \in S : \A q \in S : ~IdLess(q.message_id, r.message_id)
         IN <<first>> \o Ascending(S \ {first})

\* the same query with ScanIndexForward=False
Query_Backward(table, cid) ==
    LET items == Ascending(Partition(table, cid))
    IN [i \in 1..Len(items) |-> items[Len(items) + 1 - i]]

\* table.query(KeyConditionExpression="conversation_id = :conv_id",
\*             ScanIndexForward=True): the partition in ascending sort-key order
Query(table, cid) == Ascending(Partition(table, cid))

\* the same query with Limit=1
QueryLimit1(table, cid) ==
    LET items == Query(table, cid) IN IF items = <<>> THEN <<>> ELSE <<items[1]>>

\* the table's time-to-live attribute: an item is expired once the epoch
\* second of the clock is past its ttl
Expired(item, t) == item.ttl < t.s

(***************************************************************************)
(* ConversationService                                                     *)
(***************************************************************************)
DynamoTransient == {"ThrottlingException", "InternalServerException",
                    "ServiceUnavailableException",
                    "ProvisionedThroughputExceededException"}

NoMetadata == "<absent>"

\* message_item of add_message, built from the clock reading t
MessageItem(a, t) ==
    [conversation_id |-> a.conversation_id,
     message_id |-> MessageId(t),
     role |-> a.role,
     content |-> a.content,
     timestamp |-> t,
     ttl |-> TtlTimestamp(t),
     metadata |-> IF Truthy(a.metadata) THEN a.metadata ELSE NoMetadata]

AddMessageRequest(a, t) == [api |-> "put_item", Item |-> MessageItem(a, t)]

AddMessageBody_NoCatchAll(a, answer, t) ==
    IF answer = Ok THEN Returns(None)
    ELSE IF answer \in DynamoTransient THEN Raises(ClientError(answer))
    ELSE IF answer \in FaultCodes
         THEN Raises(ConversationServiceError(
                  Fmt("Failed to add message to conversation in DynamoDB: ",
                      ClientError(answer)),
                  [conversation_id |-> a.conversation_id,
                   message_id |-> MessageId(t), error_code |-> answer]))
         ELSE Raises(OtherError(answer))

\* body of add_message for the remote answer `answer`, clock reading t
AddMessageBody(a, answer, t) ==
    IF answer = Ok
    THEN Returns(None)
    ELSE IF answer \in FaultCodes
         THEN IF answer \in DynamoTransient
              THEN Raises(ClientError(answer))
              ELSE Raises(ConversationServiceError(
                       Fmt("Failed to add message to conversation in DynamoDB: ",
                           ClientError(answer)),
                       [conversation_id |-> a.conversation_id,
                        message_id |-> MessageId(t), error_code |-> answer]))
         ELSE Raises(ConversationServiceError(
                  Fmt("Unexpected error adding message to conversation: ",
                      OtherError(answer)),
                  [conversation_id |-> a.conversation_id, message_id |-> MessageId(t)]))

\* a put_item that also renews the ttl of the conversation's other items
AddMessageStore_RefreshTtl(a, answer, t, applied) ==
    IF answer = Ok \/ (answer \in NonFaults /\ applied)
    THEN PutItem({[r EXCEPT !.ttl = IF r.conversation_id = a.conversation_id
                                    THEN TtlTimestamp(t) ELSE r.ttl] : r \in store},
                 MessageItem(a, t))
    ELSE store

\* The table after the put_item call: written on success; when the transport
\* fails without a service answer the write may or may not have been applied.
AddMessageStore(a, answer, t, applied) ==
    IF answer = Ok \/ (answer \in NonFaults /\ applied)
    THEN PutItem(store, MessageItem(a, t))
    ELSE store

AddMessageStep(a, n, answer, applied) ==
    /\ applied => answer \in NonFaults
    /\ Cardinality(PutItem(store, MessageItem(a, now))) <= MaxStore
    /\ Attempt("add_message", a, n, answer, AddMessageRequest(a, now),
               AddMessageBody(a, answer, now), DynamoTransient)
    /\ store' = AddMessageStore(a, answer, now, applied)
    /\ UNCHANGED <<now, ticks, issued>>

\* first attempt of add_message(conversation_id, role, content, metadata)
add_message(conversation_id, role, content, metadata, answer, applied) ==
    /\ Ready
    /\ AddMessageStep([conversation_id |-> conversation_id, role |-> role,
                       content |-> content, metadata |-> metadata], 1, answer, applied)

\* tenacity calls add_message again after the sleep
add_message_retry(answer, applied) ==
    /\ pc = "retrying"
    /\ op = "add_message"
    /\ AddMessageStep(args, attempt + 1, answer, applied)

HistoryRequest(a) ==
    [api |-> "query", conversation_id |-> a.conversation_id, Limit |-> None]

\* [{"role": msg["role"], "content": msg["content"]} for msg in messages]
Transform(items) == [i \in 1..Len(items) |-> [role |-> items[i].role, content |-> items[i].content]]

\* a get_history that treats a conversation without messages as a failure
GetHistoryBody_EmptyIsError(a, answer) ==
    IF answer = Ok /\ Query(store, a.conversation_id) # <<>>
    THEN Returns(Transform(Query(store, a.conversation_id)))
    ELSE IF answer \in DynamoTransient
         THEN Raises(ClientError(answer))
         ELSE Raises(ConversationServiceError(
                  Fmt("Unexpected error getting conversation history: ",
                      OtherError(answer)),
                  [conversation_id |-> a.conversation_id]))

\* body of get_history for the remote answer `answer`
GetHistoryBody(a, answer) ==
    IF answer = Ok
    THEN Returns(Transform(Query(store, a.conversation_id)))
    ELSE IF answer \in FaultCodes
         THEN IF answer \in DynamoTransient
              THEN Raises(ClientError(answer))
              ELSE Raises(ConversationServiceError(
                       Fmt("Failed to get conversation history from DynamoDB: ",
                           ClientError(answer)),
                       [conversation_id |-> a.conversation_id, error_code |-> answer]))
         ELSE Raises(ConversationServiceError(
                  Fmt("Unexpected error getting conversation history: ",
                      OtherError(answer)),
                  [conversation_id |-> a.conversation_id]))

\* first attempt of get_history(conversation_id)
get_history(conversation_id, answer) ==
    LET a == [conversation_id |-> conversation_id] IN
    /\ Ready
    /\ Attempt("get_history", a, 1, answer, HistoryRequest(a), GetHistoryBody(a, answer),
               DynamoTransient)
    /\ UNCHANGED <<store, now, ticks, issued>>

\* tenacity calls get_history again after the sleep
get_history_retry(answer) ==
    /\ pc = "retrying"
    /\ op = "get_history"
    /\ Attempt("get_history", args, attempt + 1, answer, HistoryRequest(args),
               GetHistoryBody(args, answer), DynamoTransient)
    /\ UNCHANGED <<store, now, ticks, issued>>

HexDigits == <<"0", "1", "2", "3", "4", "5", "6", "7",
               "8", "9", "a", "b", "c", "d", "e", "f">>

\* uuid.uuid4().hex: 32 lowercase hex digits, the 13th being the version 4;
\* the other digits are random, here those of the arithmetic sequence k, 2k, ..
UuidHex(k) == [i \in 1..32 |-> IF i = 13 THEN "4" ELSE HexDigits[((i * k) % 16) + 1]]
Uuid4Hex == {UuidHex(7), UuidHex(11)}

NewConversationId_Short(hex) == <<"c", "o", "n", "v", "-">> \o SubSeq(hex, 1, 8)

\* f"conv-{uuid.uuid4().hex[:12]}" for the value hex of uuid.uuid4().hex
NewConversationId(hex) == <<"c", "o", "n", "v", "-">> \o SubSeq(hex, 1, 12)

ProbeRequest(a) ==
    [api |-> "query", conversation_id |-> a.conversation_id, Limit |-> 1]

\* the probe of ensure_conversation_exists finds a message: response.get("Items")
ProbeFinds(table, cid) == QueryLimit1(table, cid) # <<>>

\* body of ensure_conversation_exists with an id supplied
EnsureBody(a, answer, h) ==
    IF answer = Ok
    THEN IF ProbeFinds(store, a.conversation_id)
         THEN Returns(a.conversation_id)
         ELSE Returns(NewConversationId(h))
    ELSE IF answer \in FaultCodes
         THEN IF answer \in DynamoTransient
              THEN Raises(ClientError(answer))
              ELSE Raises(ConversationServiceError(
                       Fmt("DynamoDB error checking conversation existence: ",
                           ClientError(answer)),
                       [conversation_id |-> a.conversation_id, error_code |-> answer]))
         ELSE Raises(ConversationServiceError(
                  Fmt("Unexpected error checking conversation existence: ",
                      OtherError(answer)),
                  [conversation_id |-> a.conversation_id]))

\* this execution of the body of ensure_conversation_exists reaches line 248
\* and generates an id
EnsureGenerates(a, answer) ==
    ~HasId(a.conversation_id) \/ (answer = Ok /\ ~ProbeFinds(store, a.conversation_id))

\* the ids generated so far, after an execution of the body
Issue(a, answer, h) ==
    /\ EnsureGenerates(a, answer) => Len(issued) < MaxIssued
    /\ issued' = IF EnsureGenerates(a, answer)
                 THEN Append(issued, NewConversationId(h)) ELSE issued

\* an ensure_conversation_exists that hands back the id it was given
EnsureGenerate_Echo(a, h) ==
    /\ op' = "ensure_conversation_exists"
    /\ args' = a
    /\ attempt' = 1
    /\ calls' = 0
    /\ last' = "none"
    /\ onlyTransient' = FALSE
    /\ sent' = [api |-> "none"]
    /\ pc' = "done"
    /\ result' = Returns(a.conversation_id)
    /\ waits' = <<>>

\* ensure_conversation_exists without an id: no store call, a new id
EnsureGenerate(a, h) ==
    /\ op' = "ensure_conversation_exists"
    /\ args' = a
    /\ attempt' = 1
    /\ calls' = 0
    /\ last' = "none"
    /\ onlyTransient' = FALSE
    /\ sent' = [api |-> "none"]
    /\ pc' = "done"
    /\ result' = Returns(NewConversationId(h))
    /\ waits' = <<>>

\* an ensure_conversation_exists that registers the id it returns in the table
ensure_conversation_exists_Registering(conversation_id, answer, h) ==
    LET a == [conversation_id |-> conversation_id] IN
    /\ Ready
    /\ IF HasId(conversation_id)
       THEN Attempt("ensure_conversation_exists", a, 1, answer, ProbeRequest(a),
                    EnsureBody(a, answer, h), DynamoTransient)
       ELSE answer = Ok /\ EnsureGenerate(a, h)
    /\ Issue(a, answer, h)
    /\ store' = IF EnsureGenerates(a, answer)
                THEN PutItem(store, MessageItem([conversation_id |-> NewConversationId(h),
                                                 role |-> "system", content |-> "",
                                                 metadata |-> None], now))
                ELSE store
    /\ UNCHANGED <<now, ticks>>

\* first attempt of ensure_conversation_exists(conversation_id)
ensure_conversation_exists(conversation_id, answer, h) ==
    LET a == [conversation_id |-> conversation_id] IN
    /\ Ready
    /\ IF HasId(conversation_id)
       THEN Attempt("ensure_conversation_exists", a, 1, answer, ProbeRequest(a),
                    EnsureBody(a, answer, h), DynamoTransient)
       ELSE answer = Ok /\ EnsureGenerate(a, h)
    /\ Issue(a, answer, h)
    /\ UNCHANGED <<store, now, ticks>>

\* tenacity calls ensure_conversation_exists again after the sleep
ensure_conversation_exists_retry(answer, h) ==
    /\ pc = "retrying"
    /\ op = "ensure_conversation_exists"
    /\ Attempt("ensure_conversation_exists", args, attempt + 1, answer, ProbeRequest(args),
               EnsureBody(args, answer, h), DynamoTransient)
    /\ Issue(args, answer, h)
    /\ UNCHANGED <<store, now, ticks>>

\* get_or_create_history: conv_id = self.ensure_conversation_exists(conversation_id),
\* one execution of the body of ensure_conversation_exists on attempt n
ResolvePhase(a, n, answer, h) ==
    LET e == [conversation_id |-> a.conversation_id]
        t == Tenacity(n, EnsureBody(e, answer, h), IF n = 1 THEN <<>> ELSE waits)
        resolved == t.pc = "done" /\ t.result.kind = "ok"
    IN
    /\ op' = "get_or_create_history"
    /\ args' = IF resolved THEN [a EXCEPT !.conv_id = t.result.value, !.phase = "history"]
               ELSE a
    /\ attempt' = n
    /\ calls' = (IF n = 1 THEN 0 ELSE calls) + 1
    /\ last' = answer
    /\ onlyTransient' = ((n = 1 \/ onlyTransient) /\ answer \in DynamoTransient)
    /\ sent' = ProbeRequest(e)
    /\ pc' = IF resolved THEN "resolved" ELSE t.pc
    /\ result' = IF resolved THEN NoResult ELSE t.result
    /\ waits' = t.waits
    /\ Issue(e, answer, h)

\* get_or_create_history with no id: ensure_conversation_exists makes no
\* store call and returns a new id
ResolveWithoutId(a, h) ==
    /\ op' = "get_or_create_history"
    /\ args' = [a EXCEPT !.conv_id = NewConversationId(h), !.phase = "history"]
    /\ attempt' = 1
    /\ calls' = 0
    /\ last' = "none"
    /\ onlyTransient' = FALSE
    /\ sent' = [api |-> "none"]
    /\ pc' = "resolved"
    /\ result' = NoResult
    /\ waits' = <<>>
    /\ Issue([conversation_id |-> a.conversation_id], Ok, h)

\* get_or_create_history: history = self.get_history(conv_id); return conv_id, history
\* one execution of the body of get_history on attempt n
HistoryPhase(a, n, answer) ==
    LET g == [conversation_id |-> a.conv_id]
        t == Tenacity(n, GetHistoryBody(g, answer), IF n = 1 THEN <<>> ELSE waits)
    IN
    /\ op' = "get_or_create_history"
    /\ args' = a
    /\ attempt' = n
    /\ calls' = calls + 1
    /\ last' = answer
    /\ onlyTransient' = ((n = 1 \/ onlyTransient) /\ answer \in DynamoTransient)
    /\ sent' = HistoryRequest(g)
    /\ pc' = t.pc
    /\ result' = IF t.pc = "done" /\ t.result.kind = "ok"
                 THEN Returns(<<a.conv_id, t.result.value>>) ELSE t.result
    /\ waits' = t.waits
    /\ UNCHANGED issued

\* get_or_create_history(conversation_id) is called
get_or_create_history(conversation_id, answer, h) ==
    LET a == [conversation_id |-> conversation_id, conv_id |-> NoId, phase |-> "resolve"] IN
    /\ Ready
    /\ IF HasId(conversation_id)
       THEN ResolvePhase(a, 1, answer, h)
       ELSE answer = Ok /\ ResolveWithoutId(a, h)
    /\ UNCHANGED <<store, now, ticks>>

\* ensure_conversation_exists has returned: get_history(conv_id) is called
get_or_create_history_history(answer) ==
    /\ pc = "resolved"
    /\ op = "get_or_create_history"
    /\ HistoryPhase(args, 1, answer)
    /\ UNCHANGED <<store, now, ticks>>

\* tenacity calls the decorated function of the current phase again
get_or_create_history_retry(answer, h) ==
    /\ pc = "retrying"
    /\ op = "get_or_create_history"
    /\ IF args.phase = "resolve"
       THEN ResolvePhase(args, attempt + 1, answer, h)
       ELSE HistoryPhase(args, attempt + 1, answer)
    /\ UNCHANGED <<store, now, ticks>>

(***************************************************************************)
(* Environment: the clock advances, the table deletes expired items        *)
(***************************************************************************)
ClockSteps == {[s |-> 0, us |-> 1], [s |-> SecondsPerDay, us |-> 0]}

Tick(d) ==
    /\ ticks < MaxTicks
    /\ now' = TimeAdd(now, d)
    /\ ticks' = ticks + 1
    /\ UNCHANGED <<pc, op, args, attempt, calls, last, onlyTransient, sent, waits,
                   result, store, issued>>

\* the table's background TTL process deletes an expired item some time
\* after it expired
StoreExpire(item) ==
    /\ item \in store
    /\ Expired(item, now)
    /\ store' = store \ {item}
    /\ UNCHANGED <<pc, op, args, attempt, calls, last, onlyTransient, sent, waits,
                   result, now, ticks, issued>>

(***************************************************************************)
(* BedrockService.invoke_model                                             *)
(***************************************************************************)
UpperCase == <<"A", "B", "C", "D", "E", "F", "G", "H", "I", "J", "K", "L", "M",
               "N", "O", "P", "Q", "R", "S", "T", "U", "V", "W", "X", "Y", "Z">>
LowerCase == <<"a", "b", "c", "d", "e", "f", "g", "h", "i", "j", "k", "l", "m",
               "n", "o", "p", "q", "r", "s", "t", "u", "v", "w", "x", "y", "z">>

\* str.lower(), a string being the sequence of its characters
LowerChar(c) ==
    IF \E i \in 1..Len(UpperCase) : UpperCase[i] = c
    THEN LowerCase[CHOOSE i \in 1..Len(UpperCase) : UpperCase[i] = c]
    ELSE c
Lower(str) == [i \in 1..Len(str) |-> LowerChar(str[i])]

\* sub in str
Contains(sub, str) ==
    \E i \in 1..(Len(str) - Len(sub) + 1) : SubSeq(str, i, i + Len(sub) - 1) = sub

claude == <<"c", "l", "a", "u", "d", "e">>
llama == <<"l", "l", "a", "m", "a">>

ModelFamily_CaseSensitive(model_id) ==
    IF Contains(claude, model_id) THEN "claude"
    ELSE IF Contains(llama, model_id) THEN "llama"
    ELSE "unsupported"

\* the if / elif / else of invoke_model
ModelFamily(model_id) ==
    IF Contains(claude, Lower(model_id)) THEN "claude"
    ELSE IF Contains(llama, Lower(model_id)) THEN "llama"
    ELSE "unsupported"

\* request body of _invoke_claude (its keys)
ClaudeBody(system_prompt) ==
    {"anthropic_version", "max_tokens", "temperature", "messages"}
        \cup (IF Truthy(system_prompt) THEN {"system_prompt"} ELSE {})

\* request body of _invoke_llama (its keys)
LlamaBody == {"messages", "temperature", "max_gen_len"}

InvokeRequest(a) ==
    [api |-> "invoke_model",
     modelId |-> a.model_id,
     envelope |-> ModelFamily(a.model_id),
     body |-> IF ModelFamily(a.model_id) = "claude" THEN ClaudeBody(a.system_prompt)
              ELSE LlamaBody]

InvokeFailure_Unwrapped(a, e) == Raises(e)

\* except Exception as e: raise BedrockServiceError(error_msg, {"model_id": model_id})
InvokeFailure(a, e) ==
    Raises(BedrockServiceError(<<"Failed to invoke model ", a.model_id, ": ">> \o e.msg,
                               [model_id |-> a.model_id]))

\* Outcome of invoke_model.  serializable: json.dumps(body) succeeds;
\* answer: what the runtime answers; wellFormed: the response payload has
\* the field the family's parser reads.
InvokeBody(a, serializable, answer, wellFormed) ==
    IF ModelFamily(a.model_id) = "unsupported"
    THEN Raises(BedrockServiceError(<<"Unsupported model: ", a.model_id>>,
                                    [model_id |-> a.model_id]))
    ELSE IF ~serializable THEN InvokeFailure(a, OtherError("TypeError"))
    ELSE IF answer = Ok
         THEN IF wellFormed THEN Returns("generated text")
              ELSE InvokeFailure(a, OtherError("KeyError"))
         ELSE IF answer \in FaultCodes THEN InvokeFailure(a, ClientError(answer))
              ELSE InvokeFailure(a, OtherError(answer))

\* the remote model call is reached
InvokeCalls(a, serializable) == ModelFamily(a.model_id) # "unsupported" /\ serializable

invoke_model(model_id, system_prompt, serializable, answer, wellFormed) ==
    LET a == [model_id |-> model_id, system_prompt |-> system_prompt] IN
    /\ Ready
    /\ op' = "invoke_model"
    /\ args' = a
    /\ attempt' = 1
    /\ calls' = IF InvokeCalls(a, serializable) THEN 1 ELSE 0
    /\ last' = IF InvokeCalls(a, serializable) THEN answer ELSE "none"
    /\ onlyTransient' = FALSE
    /\ sent' = IF InvokeCalls(a, serializable) THEN InvokeRequest(a) ELSE [api |-> "none"]
    /\ pc' = "done"
    /\ result' = InvokeBody(a, serializable, answer, wellFormed)
    /\ waits' = <<>>
    /\ UNCHANGED <<store, now, ticks, issued>>

(***************************************************************************)
(* utils/config.py and BedrockService.__init__                             *)
(***************************************************************************)
\* the attributes of the global config instance: those set by
\* Config.__init__ and the class attributes
ConfigAttributes ==
    {"KNOWLEDGE_BASE_ID", "S3_BUCKET_NAME", "AWS_REGION",
     "DEFAULT_MODEL_ID", "FALLBACK_MODEL_ID"}

\* config.<name>
ConfigGet(name) ==
    IF name \in ConfigAttributes
    THEN Returns(IF name = "KNOWLEDGE_BASE_ID" THEN KNOWLEDGE_BASE_ID ELSE name)
    ELSE Raises(OtherError("AttributeError"))

\* BedrockService(): region, the three clients, knowledge_base_id,
\* s3_data_source_id
BedrockServiceInit ==
    IF ConfigGet("AWS_REGION").kind = "error" THEN ConfigGet("AWS_REGION")
    ELSE IF ConfigGet("KNOWLEDGE_BASE_ID").kind = "error" THEN ConfigGet("KNOWLEDGE_BASE_ID")
    ELSE IF ConfigGet("S3_DATA_SOURCE_ID").kind = "error" THEN ConfigGet("S3_DATA_SOURCE_ID")
    ELSE Returns([knowledge_base_id |-> ConfigGet("KNOWLEDGE_BASE_ID").value,
                  s3_data_source_id |-> ConfigGet("S3_DATA_SOURCE_ID").value])

\* Config(): env is the set of environment variables that are set; the
\* region falls back to the session's region or "us-east-1"
ConfigInit(env) ==
    IF "KNOWLEDGE_BASE_ID" \notin env THEN Raises(OtherError("ValueError"))
    ELSE IF "S3_BUCKET_NAME" \notin env THEN Raises(OtherError("ValueError"))
    ELSE Returns(ConfigAttributes)

\* ConversationService(): the dynamodb resource, then the table
ConversationServiceInit ==
    IF ConfigGet("AWS_REGION").kind = "error" THEN ConfigGet("AWS_REGION")
    ELSE IF ConfigGet("CONVERSATIONS_TABLE_NAME").kind = "error"
         THEN ConfigGet("CONVERSATIONS_TABLE_NAME")
         ELSE Returns([table |-> ConfigGet("CONVERSATIONS_TABLE_NAME").value])

\* outcome of constructing an instance of cls in a process started with env:
\* the services import the module-level config = Config()
ConstructBody(cls, env) ==
    IF ConfigInit(env).kind = "error" THEN ConfigInit(env)
    ELSE IF cls = "Config" THEN ConfigInit(env)
    ELSE IF cls = "BedrockService" THEN BedrockServiceInit
    ELSE ConversationServiceInit

\* Config(), BedrockService() or ConversationService() is constructed
construct(cls, env) ==
    /\ Ready
    /\ op' = "construct"
    /\ args' = [cls |-> cls, env |-> env]
    /\ attempt' = 1
    /\ calls' = 0
    /\ last' = "none"
    /\ onlyTransient' = FALSE
    /\ sent' = [api |-> "none"]
    /\ pc' = "done"
    /\ result' = ConstructBody(cls, env)
    /\ waits' = <<>>
    /\ UNCHANGED <<store, now, ticks, issued>>

(***************************************************************************)
(* BedrockService.start_ingestion_job                                      *)
(***************************************************************************)
StartIngestionRequest(self, data_source_id) ==
    [api |-> "start_ingestion_job",
     knowledgeBaseId |-> self.knowledge_base_id,
     dataSourceId |-> IF Truthy(data_source_id) THEN data_source_id
                      ELSE self.s3_data_source_id]

\* body of start_ingestion_job for the remote answer `answer`
StartIngestionJobBody(self, data_source_id, answer, response) ==
    IF answer = Ok
    THEN Returns(response)
    ELSE Raises(KnowledgeBaseError(
             Fmt("Failed to start ingestion job: ",
                 IF answer \in FaultCodes THEN ClientError(answer) ELSE OtherError(answer)),
             [knowledge_base_id |-> self.knowledge_base_id,
              data_source_id |-> StartIngestionRequest(self, data_source_id).dataSourceId]))

(***************************************************************************)
(* handlers/knowledge_base_handler.py                                      *)
(***************************************************************************)
\* event.get("Records", [])
EventRecords(event) == IF "Records" \in DOMAIN event THEN event.Records ELSE <<>>

\* {"bucket": record["s3"]["bucket"]["name"], "key": record["s3"]["object"]["key"]}
\* for each record, in order
S3Objects(records) ==
    [i \in 1..Len(records) |->
        [bucket |-> records[i].s3.bucket.name, key |-> records[i].s3.object.key]]

\* d.get(key)
DictGet(d, key) == IF key \in DOMAIN d THEN d[key] ELSE None

\* json.dumps of a body
JsonDumps(body) == <<"json", body>>

NoRecordsResponse ==
    [statusCode |-> 200, body |-> JsonDumps([message |-> "No records to process"])]

StartedResponse(records, response) ==
    LET ingestion_job == IF "ingestionJob" \in DOMAIN response
                         THEN response.ingestionJob ELSE [none |-> None]
    IN [statusCode |-> 200,
        body |-> JsonDumps([message |-> "Ingestion job started",
                            ingestion_job_id |-> DictGet(ingestion_job, "ingestionJobId"),
                            status |-> DictGet(ingestion_job, "status"),
                            files_triggered |-> S3Objects(records),
                            files_count |-> Len(S3Objects(records))])]

\* the handler reaches bedrock_service.start_ingestion_job()
HandlerStartsJob(event) ==
    EventRecords(event) # <<>> /\ BedrockServiceInit.kind = "ok"

\* body of handler: the except clauses log and re-raise
HandlerBody(event, answer, response) ==
    IF EventRecords(event) = <<>>
    THEN Returns(NoRecordsResponse)
    ELSE IF BedrockServiceInit.kind = "error"
         THEN Raises(BedrockServiceInit.err)
         ELSE LET started == StartIngestionJobBody(BedrockServiceInit.value, None,
                                                   answer, response)
              IN IF started.kind = "error"
                 THEN Raises(started.err)
                 ELSE Returns(StartedResponse(EventRecords(event), started.value))

\* handler(event, context)
handler(event, answer, response) ==
    /\ Ready
    /\ op' = "handler"
    /\ args' = [event |-> event]
    /\ attempt' = 1
    /\ calls' = IF HandlerStartsJob(event) THEN 1 ELSE 0
    /\ last' = IF HandlerStartsJob(event) THEN answer ELSE "none"
    /\ onlyTransient' = FALSE
    /\ sent' = IF HandlerStartsJob(event)
               THEN StartIngestionRequest(BedrockServiceInit.value, None)
               ELSE [api |-> "none"]
    /\ pc' = "done"
    /\ result' = HandlerBody(event, answer, response)
    /\ waits' = <<>>
    /\ UNCHANGED <<store, now, ticks, issued>>

(***************************************************************************)
(* Orchestrator (spec.md 4.5): resolve the conversation, fetch the history, *)
(* retrieve, generate, append the user turn and the assistant turn,         *)
(* respond.  The stages call the operations of the two services above.      *)
(***************************************************************************)
DEFAULT_MODEL_ID == <<"a", ".", "c", "l", "a", "u", "d", "e", "-", "3">>
DefaultMaxResults == 5

NextStage(stage) ==
    CASE stage = "resolve" -> "history"
      [] stage = "history" -> "retrieve"
      [] stage = "retrieve" -> "generate"
      [] stage = "generate" -> "append_user"
      [] stage = "append_user" -> "append_assistant"
      [] OTHER -> "respond"

\* the arguments of the add_message call of an append stage
AppendArgs(a) ==
    IF a.stage = "append_user"
    THEN [conversation_id |-> a.conv_id, role |-> "user", content |-> a.query,
          metadata |-> None]
    ELSE [conversation_id |-> a.conv_id, role |-> "assistant", content |-> a.answer,
          metadata |-> "sources"]

\* the stage makes a remote call (resolve_or_create without an id does not)
StageCalls(a) == a.stage # "resolve" \/ HasId(a.conversation_id)

\* outcome of the body of the operation the stage calls
StageBody(a, answer, h, k) ==
    CASE a.stage = "resolve" ->
            IF HasId(a.conversation_id)
            THEN EnsureBody([conversation_id |-> a.conversation_id], answer, h)
            ELSE Returns(NewConversationId(h))
      [] a.stage = "history" -> GetHistoryBody([conversation_id |-> a.conv_id], answer)
      [] a.stage = "retrieve" ->
            RetrieveBody([query |-> a.query, max_results |-> DefaultMaxResults,
                          next_token |-> None], answer, k)
      [] a.stage = "generate" ->
            InvokeBody([model_id |-> a.model_id, system_prompt |-> "instructions"],
                       TRUE, answer, TRUE)
      [] OTHER -> AddMessageBody(AppendArgs(a), answer, now)

\* generate is not retried; the other stages are decorated with tenacity
StageResult(a, n, outcome) ==
    IF a.stage = "generate"
    THEN [pc |-> "done", result |-> outcome, waits |-> <<>>]
    ELSE Tenacity(n, outcome, IF n = 1 THEN <<>> ELSE waits)

\* the request's record of what the stage returned
StageKeeps(a, value) ==
    CASE a.stage = "resolve" -> [a EXCEPT !.conv_id = value, !.stage = NextStage(a.stage)]
      [] a.stage = "history" -> [a EXCEPT !.history = value, !.stage = NextStage(a.stage)]
      [] a.stage = "retrieve" ->
            [a EXCEPT !.chunks = value.retrievalResults, !.stage = NextStage(a.stage)]
      [] a.stage = "generate" -> [a EXCEPT !.answer = value, !.stage = NextStage(a.stage)]
      [] OTHER -> [a EXCEPT !.stage = NextStage(a.stage)]

\* response assembly: answer text, sources, resolved conversation id, model
QueryResponse(a) ==
    [response |-> a.answer, sources |-> a.chunks,
     conversation_id |-> a.conv_id, model_used |-> a.model_id]

\* a request arrives: query, optional conversation id; the request keeps the
\* table as it was on arrival
process_query(query, conversation_id) ==
    /\ Ready
    /\ op' = "process_query"
    /\ args' = [query |-> query, conversation_id |-> conversation_id,
                model_id |-> DEFAULT_MODEL_ID, stage |-> "resolve", conv_id |-> NoId,
                history |-> <<>>, chunks |-> 0, answer |-> None, arrival |-> store]
    /\ attempt' = 0
    /\ calls' = 0
    /\ last' = "none"
    /\ onlyTransient' = FALSE
    /\ sent' = [api |-> "none"]
    /\ pc' = "stage"
    /\ result' = NoResult
    /\ waits' = <<>>
    /\ UNCHANGED <<store, now, ticks, issued>>

\* one attempt of the operation of the current stage; a stage that fails
\* ends the request with its error, the last stage ends it with the response
process_query_step(answer, h, k) ==
    LET n == IF pc = "retrying" THEN attempt + 1 ELSE 1
        t == StageResult(args, n, StageBody(args, answer, h, k))
        passed == t.pc = "done" /\ t.result.kind = "ok"
        appends == args.stage \in {"append_user", "append_assistant"}
    IN
    /\ op = "process_query"
    /\ pc \in {"stage", "retrying"}
    /\ ~StageCalls(args) => answer = Ok
    /\ appends => Cardinality(PutItem(store, MessageItem(AppendArgs(args), now))) <= MaxStore
    /\ op' = op
    /\ args' = IF passed THEN StageKeeps(args, t.result.value) ELSE args
    /\ attempt' = n
    /\ calls' = IF StageCalls(args) THEN calls + 1 ELSE calls
    /\ last' = IF StageCalls(args) THEN answer ELSE last
    /\ onlyTransient' = FALSE
    /\ sent' = IF appends THEN AddMessageRequest(AppendArgs(args), now) ELSE sent
    /\ pc' = IF passed
             THEN (IF NextStage(args.stage) = "respond" THEN "done" ELSE "stage")
             ELSE t.pc
    /\ result' = IF passed
                 THEN (IF NextStage(args.stage) = "respond"
                       THEN Returns(QueryResponse(args)) ELSE NoResult)
                 ELSE t.result
    /\ waits' = t.waits
    /\ store' = IF appends THEN AddMessageStore(AppendArgs(args), answer, now, FALSE)
                ELSE store
    /\ IF args.stage = "resolve"
       THEN Issue([conversation_id |-> args.conversation_id], answer, h)
       ELSE UNCHANGED issued
    /\ UNCHANGED <<now, ticks>>

(***************************************************************************)
(* Inputs                                                                  *)
(***************************************************************************)
ModelIds ==
    { <<"a", ".", "c", "l", "a", "u", "d", "e", "-", "3">>,
      <<"C", "L", "A", "U", "D", "E">>,
      <<"a", ".", "C", "l", "a", "u", "d", "e">>,
      <<"m", ".", "l", "l", "a", "m", "a", "3">>,
      <<"L", "L", "a", "M", "A">>,
      <<"c", "l", "a", "u", "d", "e", "-", "l", "l", "a", "m", "a">>,
      <<"L", "l", "a", "m", "a", "-", "C", "l", "a", "u", "d", "e">>,
      <<"t", "i", "t", "a", "n">>,
      <<"c", "l", "a", "u", "d">>,
      <<"l", "a", "m", "a">>,
      <<>> }
SystemPrompts == {None, "", "instructions"}
\* an id chosen by a client, and an id generated by an earlier request
ClientId == <<"c", "1">>
ConversationIds == {ClientId, NewConversationId(UuidHex(7))}
Turns == {<<"user", "What is X?", None>>, <<"assistant", "X is Y.", "sources">>}
\* a success, a transient fault, a permanent fault, a transport failure
StoreAnswers == {Ok, "ThrottlingException", "AccessDeniedException", "EndpointConnectionError"}
\* upload notifications: up to MaxRecords records, the same object possibly
\* notified twice, or an event without a Records key
S3Records ==
    {[s3 |-> [bucket |-> [name |-> "docs"], object |-> [key |-> k]]] : k \in {"a.pdf", "b.pdf"}}
Events ==
    {[Records |-> rs] : rs \in UNION {[1..n -> S3Records] : n \in 0..MaxRecords}}
        \cup {[source |-> "test"]}
IngestionResponses ==
    {[ingestionJob |-> [ingestionJobId |-> "job-1", status |-> "STARTING"]],
     [ResponseMetadata |-> None]}
\* the classes constructed at start-up, and the environments of a process
Classes == {"Config", "BedrockService", "ConversationService"}
RequiredEnv == {"KNOWLEDGE_BASE_ID", "S3_BUCKET_NAME", "AWS_REGION"}
OptionalEnv == {"S3_DATA_SOURCE_ID", "CONVERSATIONS_TABLE_NAME"}
Environments == SUBSET (RequiredEnv \cup OptionalEnv)
\* answers of the table while a conversation id is resolved
ResolveAnswers == {Ok, "ThrottlingException"}

(***************************************************************************)
(* Specifications                                                          *)
(***************************************************************************)
Init ==
    /\ pc = "idle"
    /\ op = "none"
    /\ args = [none |-> None]
    /\ attempt = 0
    /\ calls = 0
    /\ last = "none"
    /\ onlyTransient = FALSE
    /\ sent = [api |-> "none"]
    /\ waits = <<>>
    /\ result = NoResult
    /\ store = {}
    /\ now = [s |-> 0, us |-> 0]
    /\ ticks = 0
    /\ issued = <<>>

\* The decorated operations under every answer of the remote service.
Next ==
    \/ \E q \in Queries, t \in NextTokens, answer \in Answers, k \in ChunkCounts :
          retrieve(q, 5, t, answer, k)
    \/ \E answer \in Answers, k \in ChunkCounts : retrieve_retry(answer, k)
    \/ \E c \in ConversationIds, t \in Turns, answer \in Answers, applied \in BOOLEAN :
          add_message(c, t[1], t[2], t[3], answer, applied)
    \/ \E answer \in Answers, applied \in BOOLEAN : add_message_retry(answer, applied)
    \/ \E c \in ConversationIds, answer \in Answers : get_history(c, answer)
    \/ \E answer \in Answers : get_history_retry(answer)
    \/ \E c \in ConversationIds \cup {NoId, <<>>}, answer \in Answers, h \in Uuid4Hex :
          ensure_conversation_exists(c, answer, h)
    \/ \E answer \in Answers, h \in Uuid4Hex : ensure_conversation_exists_retry(answer, h)

Spec == Init /\ [][Next]_vars

\* The outbound requests of retrieve, invoke_model and the upload-notification
\* handler over their inputs.
NextRequest ==
    \/ \E q \in Queries, m \in -1..MaxResultsHi, t \in NextTokens,
          answer \in StoreAnswers \cup {"LimitExceededException"}, k \in ChunkCounts :
          retrieve(q, m, t, answer, k)
    \/ \E answer \in StoreAnswers \cup {"LimitExceededException"}, k \in ChunkCounts :
          retrieve_retry(answer, k)
    \/ \E id \in ModelIds, sp \in SystemPrompts, serializable \in BOOLEAN,
          answer \in StoreAnswers, wellFormed \in BOOLEAN :
          invoke_model(id, sp, serializable, answer, wellFormed)
    \/ \E event \in Events, answer \in StoreAnswers, response \in IngestionResponses :
          handler(event, answer, response)
    \/ \E cls \in Classes, env \in Environments : construct(cls, env)

SpecRequest == Init /\ [][NextRequest]_vars

\* The conversations table over time: messages are written and listed while
\* the clock advances and the table deletes expired items.
NextStore ==
    \/ \E c \in ConversationIds, t \in Turns, answer \in ResolveAnswers, applied \in BOOLEAN :
          add_message(c, t[1], t[2], t[3], answer, applied)
    \/ \E answer \in ResolveAnswers, applied \in BOOLEAN : add_message_retry(answer, applied)
    \/ \E c \in ConversationIds, answer \in ResolveAnswers : get_history(c, answer)
    \/ \E answer \in ResolveAnswers : get_history_retry(answer)
    \/ \E c \in ConversationIds \cup {NoId}, answer \in ResolveAnswers :
          ensure_conversation_exists(c, answer, UuidHex(7))
    \/ \E answer \in ResolveAnswers : ensure_conversation_exists_retry(answer, UuidHex(7))
    \/ \E d \in ClockSteps : Tick(d)
    \/ \E item \in store : StoreExpire(item)

SpecStore == Init /\ [][NextStore]_vars

\* Conversation ids are resolved against the table while messages are
\* written, the clock advances and the table deletes expired items.
NextResolve ==
    \/ \E c \in ConversationIds : add_message(c, "user", "What is X?", None, Ok, FALSE)
    \/ \E c \in ConversationIds, answer \in ResolveAnswers : get_history(c, answer)
    \/ \E answer \in ResolveAnswers : get_history_retry(answer)
    \/ \E c \in ConversationIds \cup {NoId}, answer \in ResolveAnswers :
          ensure_conversation_exists(c, answer, UuidHex(7))
    \/ \E answer \in ResolveAnswers : ensure_conversation_exists_retry(answer, UuidHex(7))
    \/ \E c \in ConversationIds \cup {NoId}, answer \in ResolveAnswers, h \in {UuidHex(7)} :
          get_or_create_history(c, answer, h)
    \/ \E answer \in ResolveAnswers : get_or_create_history_history(answer)
    \/ \E answer \in ResolveAnswers, h \in {UuidHex(7)} : get_or_create_history_retry(answer, h)
    \/ \E d \in ClockSteps : Tick(d)
    \/ \E item \in store : StoreExpire(item)

SpecResolve == Init /\ [][NextResolve]_vars

\* Query requests are processed stage by stage while the clock advances.
NextQuery ==
    \/ \E q \in Queries, c \in {NoId, NewConversationId(UuidHex(7))} : process_query(q, c)
    \/ \E answer \in ResolveAnswers, k \in ChunkCounts :
          process_query_step(answer, UuidHex(7), k)
    \/ \E d \in ClockSteps : Tick(d)

SpecQuery == Init /\ [][NextQuery]_vars

(***************************************************************************)
(* Properties                                                              *)
(***************************************************************************)
RetryOps == {"retrieve", "add_message", "get_history", "ensure_conversation_exists"}
TransientOf(name) == IF name = "retrieve" THEN RetrieveTransient ELSE DynamoTransient
DomainErrorOf(name) ==
    IF name = "retrieve" THEN "KnowledgeBaseError" ELSE "ConversationServiceError"

\* C1: when every remote call of retrieve, add_message, get_history or
\* ensure_conversation_exists (id supplied) fails with a transient fault, the
\* operation ends after exactly 3 remote calls, with an error; there is never
\* a 4th call.
C1_ThreeAttemptsThenError ==
    op \in RetryOps =>
        /\ calls <= 3
        /\ onlyTransient =>
              /\ (pc = "done") <=> (calls = 3)
              /\ pc = "done" => result.kind = "error"

C1_Witness ==
    /\ pc = "done" /\ op = "add_message" /\ onlyTransient
    /\ calls = 3 /\ result.kind = "error"

\* C2: after 3 consecutive transient faults the caller receives the typed
\* domain error of the component (KnowledgeBaseError for retrieve,
\* ConversationServiceError for the conversation service).
C2_ExhaustedRaisesDomainError ==
    (op \in RetryOps /\ pc = "done" /\ onlyTransient /\ calls = 3) =>
        /\ result.kind = "error"
        /\ result.err.type = DomainErrorOf(op)

\* C3: a remote call that fails with a fault code outside the transient set
\* ends the operation at that attempt with the typed domain error; no further
\* remote call follows, and on the first attempt exactly one call was made.
C3_PermanentFaultFailsFast ==
    (op \in RetryOps /\ last \in FaultCodes \ TransientOf(op)) =>
        /\ pc = "done"
        /\ result.kind = "error"
        /\ result.err.type = DomainErrorOf(op)
        /\ calls = attempt

C3_Witness ==
    /\ op = "ensure_conversation_exists" /\ last = "AccessDeniedException"
    /\ pc = "done" /\ calls = 1
    /\ result.kind = "error" /\ result.err.type = "ConversationServiceError"

\* C4: a remote call that fails with an exception that is not a ClientError
\* is not retried, and the caller receives the typed domain error; on the
\* first attempt exactly one remote call was made.
C4_NonFaultNeverRetried ==
    (op \in RetryOps /\ last \in NonFaults) =>
        /\ pc = "done"
        /\ result.kind = "error"
        /\ result.err.type = DomainErrorOf(op)
        /\ calls = attempt

C4_Witness ==
    /\ op = "add_message" /\ last \in NonFaults /\ pc = "done" /\ calls = 1
    /\ result.kind = "error" /\ result.err.type = "ConversationServiceError"

\* C5: transient faults on the first 1 or 2 attempts are not observed by the
\* caller: the operation goes on to the next attempt, and a success on that
\* attempt is returned as the result of the operation.
C5_TransientThenSuccess ==
    op \in RetryOps =>
        /\ (onlyTransient /\ calls <= 2) => (pc = "retrying" /\ result.kind = "none")
        /\ last = Ok =>
              /\ pc = "done"
              /\ result.kind = "ok"
              /\ op = "get_history" =>
                    result.value = Transform(Query(store, args.conversation_id))

C5_Witness ==
    /\ op = "get_history" /\ pc = "done" /\ attempt = 3 /\ calls = 3
    /\ last = Ok /\ result.kind = "ok"

\* C6: for every max_results greater than 10, retrieve sends a result-count
\* cap of exactly 10.
C6_ClampAboveTen ==
    (op = "retrieve" /\ args.max_results > 10) =>
        /\ sent.api = "retrieve"
        /\ sent.numberOfResults = 10

C6_Witness ==
    /\ op = "retrieve" /\ args.max_results = 12
    /\ sent.api = "retrieve" /\ sent.numberOfResults = 10

\* C7: for every integer max_results, 0 and negative values included, the
\* result-count cap retrieve sends is max_results clamped to 1..10.
C7_ClampedToOneTen ==
    op = "retrieve" =>
        /\ sent.numberOfResults \in 1..10
        /\ sent.numberOfResults = Max(1, Min(args.max_results, 10))

HasClaude == Contains(claude, Lower(args.model_id))
HasLlama == Contains(llama, Lower(args.model_id))
Unsupported ==
    /\ result.kind = "error"
    /\ result.err.type = "BedrockServiceError"
    /\ result.err.msg[1] = "Unsupported model: "
    /\ calls = 0
SentClaudeEnvelope ==
    /\ sent.envelope = "claude"
    /\ {"anthropic_version", "max_tokens", "temperature", "messages"} \subseteq sent.body
    /\ "max_gen_len" \notin sent.body
SentLlamaEnvelope ==
    /\ sent.envelope = "llama"
    /\ sent.body = {"messages", "temperature", "max_gen_len"}

\* C8 as stated: an id containing "claude" (any case) goes out with the
\* Claude envelope, an id containing "llama" (any case) with the Llama
\* envelope, any other id fails as unsupported with no remote call.
C8_RoutesByModelId_AsStated ==
    op = "invoke_model" =>
        /\ HasClaude => (~Unsupported /\ (calls = 1 => SentClaudeEnvelope))
        /\ HasLlama => (~Unsupported /\ (calls = 1 => SentLlamaEnvelope))
        /\ (~HasClaude /\ ~HasLlama) => Unsupported

\* C8 (amended): an id containing "claude" (any case) goes out with the
\* Claude envelope; an id containing "llama" (any case) and not "claude"
\* goes out with the Llama envelope; any other id fails as unsupported with
\* no remote call.
C8_RoutesByModelId ==
    op = "invoke_model" =>
        /\ HasClaude => (~Unsupported /\ (calls = 1 => SentClaudeEnvelope))
        /\ (HasLlama /\ ~HasClaude) => (~Unsupported /\ (calls = 1 => SentLlamaEnvelope))
        /\ (~HasClaude /\ ~HasLlama) => Unsupported

C8_Witness ==
    /\ op = "invoke_model" /\ args.model_id = <<"L", "L", "a", "M", "A">>
    /\ calls = 1 /\ SentLlamaEnvelope /\ result.kind = "ok"

\* C9: invoke_model makes at most one remote model call and never retries;
\* a failure of that call, whatever its kind, reaches the caller as a
\* BedrockServiceError whose details hold the model id.
C9_InvokeNoRetry ==
    op = "invoke_model" =>
        /\ pc = "done"
        /\ calls <= 1
        /\ (calls = 1 /\ last # Ok) =>
              /\ result.kind = "error"
              /\ result.err.type = "BedrockServiceError"
              /\ result.err.details.model_id = args.model_id

C9_Witness ==
    /\ op = "invoke_model" /\ calls = 1 /\ last = "ThrottlingException"
    /\ pc = "done" /\ result.kind = "error" /\ result.err.type = "BedrockServiceError"

\* the clock is past the creation time of the item plus the retention window
PastRetention(item, t) ==
    TimeLess(TimeAdd(item.timestamp, [s |-> SecondsPerDay, us |-> 0]), t)

\* a step in which get_history returns a history
GetHistoryReturns ==
    /\ op' = "get_history" /\ pc' = "done" /\ result'.kind = "ok"
    /\ store' = store /\ now' = now

\* C10: a message is absent from the result of get_history once the clock is
\* past its creation time plus the retention window of 1 day: get_history
\* returns exactly the messages of the conversation still within retention.
C10_ExpiredAbsentFromHistory ==
    [][GetHistoryReturns =>
         result'.value = Transform(Query({r \in store : ~PastRetention(r, now)},
                                         args'.conversation_id))]_vars

\* two records with the same primary key (conversation_id, message_id)
SameKey(q, r) == q.conversation_id = r.conversation_id /\ q.message_id = r.message_id

\* C11: the expiry of a stored message is its creation time plus 1 day, and
\* no step of add_message, get_history or ensure_conversation_exists (nor of
\* the clock or the table) changes it: every record still present after a
\* step has the expiry it had before the step.
C11_ExpiryFixedAtWrite ==
    [][\A r \in store' :
          /\ r.ttl = TtlTimestamp(r.timestamp)
          /\ \A q \in store : SameKey(q, r) => r.ttl = q.ttl]_vars

\* a later message was written to a conversation a day after an earlier one,
\* and both are present with their own expiry
C11_Witness ==
    /\ op = "add_message" /\ pc = "done" /\ result.kind = "ok"
    /\ \E q, r \in store :
          /\ q.conversation_id = r.conversation_id
          /\ r.message_id = sent.Item.message_id
          /\ q.ttl + SecondsPerDay = r.ttl
          /\ q.ttl = TtlTimestamp(q.timestamp)

\* C12: a record identified by (conversation id, message id) keeps the role
\* and content it was first written with for as long as it is in the table:
\* no step replaces or alters an existing record.
C12_MessagesImmutable ==
    [][\A q \in store, r \in store' :
          SameKey(q, r) => (r.role = q.role /\ r.content = q.content)]_vars

\* a step in which the process calls add_message and the call succeeds at
\* its first attempt
AddMessageCall ==
    /\ \E c \in ConversationIds, t \in Turns : add_message(c, t[1], t[2], t[3], Ok, FALSE)
    /\ pc' = "done" /\ result'.kind = "ok"

\* C13: for two add_message calls made one after the other by the process,
\* the message id of the second is strictly greater than that of the first.
C13_MessageIdsIncrease ==
    [][(op = "add_message" /\ pc = "done" /\ result.kind = "ok" /\ AddMessageCall) =>
          IdLess(sent.Item.message_id, sent'.Item.message_id)]_vars

\* the listings of a set of records: each record exactly once, in some order
Listings(items) ==
    {seq \in [1..Cardinality(items) -> items] :
        \A i, j \in 1..Cardinality(items) : i # j => seq[i] # seq[j]}

\* a listing in strictly ascending order of message id
StrictlyAscending(seq) ==
    \A i, j \in 1..Len(seq) : i < j => IdLess(seq[i].message_id, seq[j].message_id)

\* C14: for every conversation id, the entries get_history returns are those
\* of the conversation's records listed in strictly ascending order of
\* message id; the table holds the records as an unordered set.
C14_HistoryAscending ==
    [][GetHistoryReturns =>
         \E seq \in Listings(Partition(store', args'.conversation_id)) :
             /\ StrictlyAscending(seq)
             /\ result'.value = Transform(seq)]_vars

\* get_history has returned two messages, the assistant's being the older
C14_Witness ==
    /\ op = "get_history" /\ pc = "done" /\ result.kind = "ok"
    /\ Len(result.value) = 2
    /\ result.value[1].role = "assistant" /\ result.value[2].role = "user"
    /\ \E q, r \in Partition(store, args.conversation_id) :
          /\ IdLess(q.message_id, r.message_id)
          /\ q.role = "assistant" /\ r.role = "user"

\* the table holds at least one message under the conversation id
HoldsMessage(cid) == \E r \in store : r.conversation_id = cid

\* conv- followed by 12 lowercase hex characters
GeneratedShape(id) ==
    /\ Len(id) = 17
    /\ SubSeq(id, 1, 5) = <<"c", "o", "n", "v", "-">>
    /\ \A i \in 6..17 : \E d \in 1..16 : id[i] = HexDigits[d]

\* ensure_conversation_exists has returned an id
EnsureReturned ==
    op = "ensure_conversation_exists" /\ pc = "done" /\ result.kind = "ok"

\* C15 as stated: with an id supplied, ensure_conversation_exists returns
\* that id if and only if the table holds a message under it; otherwise the
\* result has the generated shape and is not the supplied id.
C15_SuppliedIdKeptIffFound_AsStated ==
    (EnsureReturned /\ HasId(args.conversation_id)) =>
        /\ (result.value = args.conversation_id) <=> HoldsMessage(args.conversation_id)
        /\ ~HoldsMessage(args.conversation_id) =>
              (GeneratedShape(result.value) /\ result.value # args.conversation_id)

\* C15 (amended): with an id supplied, ensure_conversation_exists returns
\* that id whenever the table holds a message under it; otherwise it returns
\* the id it has just generated, which has the generated shape and differs
\* from a supplied id that is not itself of that shape.
C15_SuppliedIdKeptIfFound ==
    (EnsureReturned /\ HasId(args.conversation_id)) =>
        /\ HoldsMessage(args.conversation_id) => result.value = args.conversation_id
        /\ ~HoldsMessage(args.conversation_id) =>
              /\ GeneratedShape(result.value)
              /\ issued # <<>> /\ result.value = issued[Len(issued)]
              /\ ~GeneratedShape(args.conversation_id) =>
                    result.value # args.conversation_id

\* an id without messages was supplied and a generated id came back
C15_Witness ==
    /\ EnsureReturned /\ calls = 1
    /\ args.conversation_id = ClientId /\ ~HoldsMessage(ClientId)
    /\ HoldsMessage(NewConversationId(UuidHex(7)))
    /\ result.value = NewConversationId(UuidHex(11))

\* C16 as stated: called with no id, ensure_conversation_exists returns an
\* id of the generated shape that no earlier call has returned.
C16_FreshIdNeverRepeats_AsStated ==
    (EnsureReturned /\ ~HasId(args.conversation_id)) =>
        /\ GeneratedShape(result.value)
        /\ \A i \in 1..(Len(issued) - 1) : issued[i] # result.value

\* C16 (amended): called with no id, ensure_conversation_exists makes no
\* store call and returns the id it has just generated from uuid4, of the
\* generated shape; it differs from the ids returned earlier exactly when the
\* uuid4 values differ in their first 12 hex digits.
C16_FreshIdShape ==
    (EnsureReturned /\ ~HasId(args.conversation_id)) =>
        /\ GeneratedShape(result.value)
        /\ calls = 0 /\ sent.api = "none"
        /\ issued # <<>> /\ result.value = issued[Len(issued)]
        /\ \E h \in Uuid4Hex : result.value = <<"c", "o", "n", "v", "-">> \o SubSeq(h, 1, 12)

\* a second call without an id has returned an id other than the first
C16_Witness ==
    /\ EnsureReturned /\ args.conversation_id = NoId
    /\ Len(issued) = 2 /\ issued[1] # issued[2]
    /\ result.value = issued[2] /\ GeneratedShape(issued[2])

\* a step in which the query of get_history is answered, for a conversation
\* without stored messages
GetHistoryOfEmpty ==
    /\ op' = "get_history" /\ last' = Ok
    /\ store' = store /\ now' = now
    /\ \A r \in store' : r.conversation_id # args'.conversation_id

\* a step in which get_or_create_history returns (conv_id, history)
GetOrCreateReturns ==
    /\ op' = "get_or_create_history" /\ pc' = "done" /\ result'.kind = "ok"
    /\ store' = store /\ now' = now

\* the id returned is not the id supplied: it was generated by this call
ReturnsGeneratedId == result'.value[1] # args'.conversation_id

\* C17 as stated: get_history of a conversation with zero stored messages
\* returns the empty sequence, not an error, and get_or_create_history
\* returns an empty history whenever the id it returns was newly generated.
C17_EmptyHistory_AsStated ==
    [][/\ GetHistoryOfEmpty => (result'.kind = "ok" /\ result'.value = <<>>)
       /\ (GetOrCreateReturns /\ ReturnsGeneratedId) => result'.value[2] = <<>>]_vars

\* C17 (amended): get_history of a conversation with zero stored messages
\* returns the empty sequence, not an error, and get_or_create_history
\* returns an empty history with a newly generated id whenever no message is
\* stored under the generated id.
C17_EmptyHistory ==
    [][/\ GetHistoryOfEmpty => (result'.kind = "ok" /\ result'.value = <<>>)
       /\ (GetOrCreateReturns /\ ReturnsGeneratedId
             /\ \A r \in store' : r.conversation_id # result'.value[1]) =>
                result'.value[2] = <<>>]_vars

\* get_or_create_history was given an id without messages and has returned,
\* after a retried probe, a generated id with an empty history
C17_Witness ==
    /\ op = "get_or_create_history" /\ pc = "done" /\ result.kind = "ok"
    /\ args.conversation_id = ClientId
    /\ result.value[1] = NewConversationId(UuidHex(7))
    /\ ~HoldsMessage(result.value[1])
    /\ result.value[2] = <<>>
    /\ calls = 3

\* C18: an invocation of the upload-notification handler makes 0 job start
\* calls when the batch has no records and exactly 1 when it has one or more,
\* whether that call succeeds or fails.
C18_OneJobStartPerBatch ==
    (op = "handler" /\ pc = "done") =>
        calls = IF EventRecords(args.event) = <<>> THEN 0 ELSE 1

\* C22: with the knowledge-base identifier, the bucket name and the region
\* set, constructing the configuration, the Bedrock service and the
\* conversation service completes without error, whether or not the
\* data-source identifier and the table name are set.
C22_ConstructionSucceeds ==
    (op = "construct" /\ pc = "done" /\ RequiredEnv \subseteq args.env) =>
        result.kind = "ok"

\* the fault codes each call site retries, as the claim lists them
RetriedCodes(name) ==
    IF name = "retrieve"
    THEN {"ThrottlingException", "InternalServerException",
          "ServiceUnavailableException", "LimitExceededException"}
    ELSE {"ThrottlingException", "InternalServerException",
          "ServiceUnavailableException", "ProvisionedThroughputExceededException"}

\* C23: after a remote call that failed with a fault code, retrieve goes on
\* to another attempt exactly for ThrottlingException,
\* InternalServerException, ServiceUnavailableException and
\* LimitExceededException, and add_message, get_history and
\* ensure_conversation_exists exactly for the first three and
\* ProvisionedThroughputExceededException (while attempts remain); every
\* other code ends the operation with the typed domain error.
C23_RetryableCodesPerCallSite ==
    (op \in RetryOps /\ last \in FaultCodes) =>
        /\ (pc = "retrying") <=> (last \in RetriedCodes(op) /\ attempt < 3)
        /\ last \notin RetriedCodes(op) =>
              /\ pc = "done" /\ result.kind = "error"
              /\ result.err.type = DomainErrorOf(op)

\* retrieve has failed at once on the table's throughput code
C23_Witness ==
    /\ op = "retrieve" /\ last = "ProvisionedThroughputExceededException"
    /\ pc = "done" /\ attempt = 1 /\ calls = 1
    /\ result.kind = "error" /\ result.err.type = "KnowledgeBaseError"

\* the delay the claim gives for the n-th retry: min(10, 2 * 2^(n-1))
DelayAsStated(n) ==
    CASE n = 1 -> 2 [] n = 2 -> 4 [] n = 3 -> 8 [] OTHER -> 10

\* the delay before the n-th retry: max(2, min(10, 2^(n-1)))
DelayOfRetry(n) ==
    CASE n = 1 -> 2 [] n = 2 -> 2 [] n = 3 -> 4 [] n = 4 -> 8 [] OTHER -> 10

\* C24 as stated: the delay before the n-th retry of a transiently failing
\* call is min(10, 2 * 2^(n-1)); an operation that used its 3 attempts has
\* slept 2 and then 4.
C24_BackoffDelays_AsStated ==
    op \in RetryOps =>
        /\ \A n \in 1..Len(waits) : waits[n] = DelayAsStated(n)
        /\ (pc = "done" /\ calls = 3) => waits = <<2, 4>>

\* C24 (amended): the delay before the n-th retry of a transiently failing
\* call is max(2, min(10, 2^(n-1))): 2, 2, 4, 8, then 10, never below 2 and
\* never above 10; an operation that used its 3 attempts has slept 2 and
\* then 2.
C24_BackoffDelays ==
    op \in RetryOps =>
        /\ Len(waits) = (IF pc = "retrying" THEN attempt ELSE attempt - 1)
        /\ \A n \in 1..Len(waits) : waits[n] = DelayOfRetry(n)
        /\ (pc = "done" /\ calls = 3) => waits = <<2, 2>>
        /\ \A n \in 1..(2 * MaxAttempts) :
              WaitExponential(n) = DelayOfRetry(n) /\ WaitExponential(n) \in 2..10

\* an operation has failed on its 3rd attempt after two sleeps
C24_Witness ==
    /\ op = "get_history" /\ pc = "done" /\ onlyTransient
    /\ calls = 3 /\ Len(waits) = 2 /\ waits[2] = 2

\* the operations of the conversation service that only read
ReadOps == {"ensure_conversation_exists", "get_history", "get_or_create_history"}

\* a step taken by an operation (not by the clock or the table)
OperationStep ==
    <<pc, op, args, attempt, calls, last, onlyTransient, sent, waits, result, issued>>'
        # <<pc, op, args, attempt, calls, last, onlyTransient, sent, waits, result, issued>>

HistoryOf(table, cid) == Transform(Query(table, cid))

\* C25: a step in which add_message returns successfully appends exactly
\* its {role, content} entry to what get_history returns for the
\* conversation, as the last entry; a step in which add_message goes on to a
\* retry or ends in an error leaves what get_history returns unchanged.
C25_AppendAddsLastEntry ==
    [][(OperationStep /\ op' = "add_message") =>
          LET before == HistoryOf(store, args'.conversation_id)
              after == HistoryOf(store', args'.conversation_id)
          IN IF pc' = "done" /\ result'.kind = "ok"
             THEN after = Append(before, [role |-> args'.role, content |-> args'.content])
             ELSE after = before]_vars

\* C26: whenever get_or_create_history returns the supplied conversation id
\* unchanged, the conversation having been found to exist (the id is a
\* client's own, which is never generated), the history it returns holds at
\* least one message, whatever the table does in between.
C26_FoundImpliesNonEmptyHistory ==
    [][(GetOrCreateReturns
          /\ result'.value[1] = args'.conversation_id
          /\ ~GeneratedShape(args'.conversation_id)) =>
             result'.value[2] # <<>>]_vars

\* the records written since the request arrived
NewRecords == {r \in store : r \notin args.arrival}

\* C21: a query request with no conversation id, for which retrieval returns
\* 2 chunks and generation returns an answer, ends with a response carrying
\* a generated conversation id, the answer text and 2 sources, and has
\* written exactly two new records under that id: the user turn with the
\* query, then the assistant turn with the answer.
C21_QueryWritesTwoTurns ==
    (op = "process_query" /\ pc = "done" /\ result.kind = "ok"
       /\ ~HasId(args.conversation_id) /\ args.chunks = 2) =>
        /\ GeneratedShape(result.value.conversation_id)
        /\ result.value.response = args.answer /\ args.answer # None
        /\ result.value.sources = 2
        /\ \E u, v \in NewRecords :
              /\ NewRecords = {u, v}
              /\ u.conversation_id = result.value.conversation_id
              /\ v.conversation_id = result.value.conversation_id
              /\ u.role = "user" /\ u.content = args.query
              /\ v.role = "assistant" /\ v.content = args.answer
              /\ IdLess(u.message_id, v.message_id)

====
